---- MODULE Spec2Model ----
(***************************************************************************)
(* Article authorization and data-access layer of the SaaS starter:        *)
(* lib/db/queries (getUser, getTeamForUser, canUserEditArticle,            *)
(* createArticle, updateArticle, deleteArticle, ...) and the route         *)
(* handlers of /api/articles and /api/articles/[id].                       *)
(*                                                                         *)
(* The persistent store is the only shared state: the teamMembers,         *)
(* articles, articleTags and articleCategories tables.  Every route        *)
(* handler is one action; the last request and its response are kept in    *)
(* the state so that properties can relate them.                           *)
(***************************************************************************)
EXTENDS Integers, Sequences, FiniteSets, TLC

\* ---------------------------------------------------------------- bounds
NumTags == 2
NumCategories == 1
MaxArticles == 1
MaxClock == 3
MaxSlugLen == 3
MaxListed == 3

\* ------------------------------------------------------------ value sets
Null == 0
Undefined == "undefined"
None == <<>>
Some(x) == <<x>>

TeamMember(userId, teamId, role) ==
  [userId |-> userId, teamId |-> teamId, role |-> role]

\* user 1 owns team 1, user 2 is a member of teams 1 and 2
SeedTeamMembers ==
  {TeamMember(1, 1, "owner"), TeamMember(2, 1, "member"),
   TeamMember(2, 2, "member")}

\* the users and the teams of these rows
Users == {m.userId : m \in SeedTeamMembers}
Teams == {m.teamId : m \in SeedTeamMembers}
TagIds == 1..NumTags
CategoryIds == 1..NumCategories

\* a request carries either no session or the session of one user
Sessions == {Null} \cup Users

\* the rows of the users table: the users of the teams, and one user who
\* was soft-deleted
User(id, deletedAt) == [id |-> id, deletedAt |-> deletedAt]

SeedUsers == {User(id, Null) : id \in Users} \cup {User(3, 1)}

ArticleStatus ==
  [DRAFT |-> "draft", PUBLISHED |-> "published", UNPUBLISHED |-> "unpublished"]

StatusEnum ==
  {ArticleStatus.DRAFT, ArticleStatus.PUBLISHED, ArticleStatus.UNPUBLISHED}

\* ----------------------------------------------------------------- texts
\* A text is a string; where the code looks at its characters the text is
\* taken as the sequence of its characters.

RECURSIVE Join(_)
Join(chars) == IF chars = <<>> THEN "" ELSE Head(chars) \o Join(Tail(chars))

\* the texts that requests carry, character by character
RawTexts ==
  {<<"M", "y", " ", "F", "i", "r", "s", "t", " ", "P", "o", "s", "t">>,
   <<"S", "e", "c", "o", "n", "d", " ", "P", "o", "s", "t">>,
   <<"a", "b">>,
   <<"<", "b", ">", "H", "i", "!", "<", "/", "b", ">">>,
   <<"<", "b", ">", "<", "/", "b", ">">>,
   <<"0", "1", "2", "3", "4", "5", "6", "7", "8", "9">>,
   <<"1", "2", "3", "4", "5", "6", "7", "8", "9">>,
   <<"<", "p", ">", "0", "1", "2", "3", "4", "5", "6", "7", "8", "9",
     "<", "/", "p", ">">>}

\* the rest of a text after the next ">", or None when there is none
RECURSIVE AfterTag(_)
AfterTag(chars) ==
  IF chars = <<>> THEN None
  ELSE IF Head(chars) = ">" THEN Some(Tail(chars))
  ELSE AfterTag(Tail(chars))

\* the text without its tags "<...>"
RECURSIVE StripTags(_)
StripTags(chars) ==
  IF chars = <<>> THEN <<>>
  ELSE IF Head(chars) = "<" /\ AfterTag(Tail(chars)) # None
       THEN StripTags(AfterTag(Tail(chars))[1])
       ELSE <<Head(chars)>> \o StripTags(Tail(chars))

Texts == RawTexts \cup {StripTags(chars) : chars \in RawTexts}

\* the characters of a text
Chars(text) == CHOOSE chars \in Texts : Join(chars) = text

\* the texts as strings
TextStrings == {Join(chars) : chars \in Texts}

\* every text without its tags, tabulated
Stripped ==
  [text \in TextStrings |-> Join(StripTags(Chars(text)))] @@ <<>>

\* sanitizeInput of lib/utils/sanitize: strips HTML and script tags
sanitizeInput(text) == Stripped[text]

LowerCase ==
  <<"a", "b", "c", "d", "e", "f", "g", "h", "i", "j", "k", "l", "m",
    "n", "o", "p", "q", "r", "s", "t", "u", "v", "w", "x", "y", "z">>

UpperCase ==
  <<"A", "B", "C", "D", "E", "F", "G", "H", "I", "J", "K", "L", "M",
    "N", "O", "P", "Q", "R", "S", "T", "U", "V", "W", "X", "Y", "Z">>

Digits == {"0", "1", "2", "3", "4", "5", "6", "7", "8", "9"}

\* String.prototype.toLowerCase on one character
toLowerCase(c) ==
  IF \E i \in DOMAIN UpperCase : UpperCase[i] = c
  THEN LowerCase[CHOOSE i \in DOMAIN UpperCase : UpperCase[i] = c]
  ELSE c

\* the class [a-z0-9] of the regular expression
SlugChars == {LowerCase[i] : i \in DOMAIN LowerCase} \cup Digits

\* the text after a leading run of characters outside [a-z0-9]
RECURSIVE SkipRun(_)
SkipRun(chars) ==
  IF chars = <<>> THEN <<>>
  ELSE IF Head(chars) \in SlugChars THEN chars
  ELSE SkipRun(Tail(chars))

\* .replace(/[^a-z0-9]+/g, '-')
RECURSIVE ReplaceRuns(_)
ReplaceRuns(chars) ==
  IF chars = <<>> THEN <<>>
  ELSE IF Head(chars) \in SlugChars
       THEN <<Head(chars)>> \o ReplaceRuns(Tail(chars))
       ELSE <<"-">> \o ReplaceRuns(SkipRun(Tail(chars)))

\* .replace(/(^-|-$)/g, '')
TrimHyphens(chars) ==
  LET rest == IF chars # <<>> /\ Head(chars) = "-" THEN Tail(chars)
              ELSE chars
  IN  IF rest # <<>> /\ rest[Len(rest)] = "-"
      THEN SubSeq(rest, 1, Len(rest) - 1)
      ELSE rest

\* generateSlug without the second replace
generateSlug_NoTrim(title) ==
  ReplaceRuns([i \in DOMAIN title |-> toLowerCase(title[i])])

\* generateSlug on the characters of the title
generateSlug(title) ==
  TrimHyphens(ReplaceRuns([i \in DOMAIN title |-> toLowerCase(title[i])]))

\* generateSlug(text) for every text that a request can carry or store,
\* tabulated
Slug ==
  [text \in TextStrings |-> Join(generateSlug(Chars(text)))] @@ <<>>

VARIABLES
  teamMembers,        \* rows (userId, teamId, role)
  articles,           \* article id -> row
  nextArticleId,      \* serial of articles.id
  articleTags,        \* join rows <<articleId, tagId>>
  articleCategories,  \* join rows <<articleId, categoryId>>
  now,                \* the clock read by new Date()
  request,            \* the last request handled
  response,           \* its response
  slugCall,           \* a call of generateSlug: its title and its result
  calls               \* the calls of the data layer that are in flight

vars ==
  <<teamMembers, articles, nextArticleId, articleTags, articleCategories,
    now, request, response, slugCall, calls>>

store == <<teamMembers, articles, nextArticleId, articleTags, articleCategories>>

\* ------------------------------------------------------- session, teams

\* the session of the route handlers: session?.user?.id
auth(session) == session

\* a session token: whether its signature verifies, the user it names (if
\* any) and its expiry
Token(verified, user, expires) ==
  [verified |-> verified, user |-> user, expires |-> expires]

\* the session cookie of a request: its value is a token, or there is none
Cookie(value) == [value |-> value]

\* verifyToken of lib/auth/session: the session data of a token whose
\* signature verifies, None otherwise
verifyToken(token) ==
  IF token.verified
  THEN Some([user |-> token.user, expires |-> token.expires])
  ELSE None

\* the first part of getUser: the id of the user that the cookie names, Null
\* without cookie, without verified session data or after the expiry
SessionUserId(cookie) ==
  IF cookie.value = None THEN Null
  ELSE LET sessionData == verifyToken(cookie.value[1])
       IN  IF sessionData = None THEN Null
           ELSE IF sessionData[1].user = None THEN Null
           ELSE IF sessionData[1].expires < now THEN Null
           ELSE sessionData[1].user[1]

\* getUser without the test of deletedAt
getUser_AnyRow(session) ==
  IF session = Null THEN Null
  ELSE IF \E user \in SeedUsers : user.id = session THEN session
  ELSE Null

\* the second part of getUser, on the user id of the session (Null when the
\* cookie gave none): the user of that id who is not soft-deleted, or Null
getUser(session) ==
  IF session = Null THEN Null
  ELSE IF \E user \in SeedUsers : user.id = session /\ user.deletedAt = Null
       THEN session
  ELSE Null

\* the rows findFirst may return for (userId, teamId): at most one
getTeamMembership(userId, teamId) ==
  {m \in teamMembers : m.userId = userId /\ m.teamId = teamId}

\* getTeamForUser without the filter on the user's id
getTeamForUser_AnyTeam(session) ==
  IF getUser(session) = Null THEN {Null} ELSE Teams

\* the teams findFirst may resolve for the user (no ORDER BY: any of the
\* user's membership rows), {Null} when there is no user or no row
getTeamForUser(session) ==
  LET user == getUser(session)
      rows == {m \in teamMembers : m.userId = user}
  IN  IF user = Null \/ rows = {} THEN {Null}
      ELSE {m.teamId : m \in rows}

getArticleByIdInternal(articleId) ==
  IF articleId \in DOMAIN articles THEN Some(articles[articleId]) ELSE None

\* canUserEditArticle without the test of author or owner
canUserEditArticle_AnyMember(session, articleId) ==
  LET user == getUser(session)
  IN  IF user = Null THEN FALSE
      ELSE IF articleId \notin DOMAIN articles THEN FALSE
      ELSE {m \in teamMembers :
              m.userId = user /\ m.teamId = articles[articleId].teamId} # {}

canUserEditArticle(session, articleId) ==
  LET user == getUser(session)
  IN  IF user = Null THEN FALSE
      ELSE IF articleId \notin DOMAIN articles THEN FALSE
      ELSE LET article == articles[articleId]
               teamMember == {m \in teamMembers :
                                m.userId = user /\ m.teamId = article.teamId}
           IN  /\ teamMember # {}
               /\ \/ article.authorId = user
                  \/ \E m \in teamMember : m.role = "owner"

\* getArticleById under the team that getTeamForUser resolved
getArticleById(session, team, articleId) ==
  IF getUser(session) = Null THEN None
  ELSE IF team = Null THEN None
  ELSE IF articleId \in DOMAIN articles /\ articles[articleId].teamId = team
       THEN Some(articles[articleId])
       ELSE None


\* ------------------------------------------------------ data-access layer

Falsy(s) == s \in {Undefined, ""}

Threw(message) ==
  [threw |-> TRUE, error |-> message, article |-> None,
   articles |-> articles, articleTags |-> articleTags,
   articleCategories |-> articleCategories]

\* the articles of the resolved team, newest update first
RECURSIVE OrderByUpdatedAtDesc(_)
OrderByUpdatedAtDesc(rows) ==
  IF rows = {} THEN <<>>
  ELSE LET first == CHOOSE a \in rows :
                      \A b \in rows : b.updatedAt <= a.updatedAt
       IN  <<first>> \o OrderByUpdatedAtDesc(rows \ {first})

\* getArticlesForTeam without the filter on the team
getArticlesForTeam_AllTeams(session, team) ==
  IF getUser(session) = Null THEN None
  ELSE IF team = Null THEN None
  ELSE Some(OrderByUpdatedAtDesc({articles[i] : i \in DOMAIN articles}))

getArticlesForTeam(session, team) ==
  IF getUser(session) = Null THEN None
  ELSE IF team = Null THEN None
  ELSE Some(OrderByUpdatedAtDesc(
              {articles[i] : i \in {j \in DOMAIN articles :
                                      articles[j].teamId = team}}))

\* createArticle that stores every article as a draft
createArticle_AlwaysDraft(session, team, data) ==
  LET user == getUser(session)
  IN  IF user = Null THEN Threw("User not authenticated")
      ELSE IF team = Null THEN Threw("User not in a team")
      ELSE
        LET article ==
              [id |-> nextArticleId,
               title |-> data.title,
               slug |-> Slug[data.title],
               content |-> data.content,
               status |-> ArticleStatus.DRAFT,
               authorId |-> user,
               teamId |-> team,
               publishedAt |-> Null,
               updatedAt |-> now]
        IN  [threw |-> FALSE, error |-> "", article |-> Some(article),
             articles |-> (article.id :> article) @@ articles,
             articleTags |-> articleTags,
             articleCategories |-> articleCategories]

createArticle(session, team, data) ==
  LET user == getUser(session)
  IN  IF user = Null THEN Threw("User not authenticated")
      ELSE IF team = Null THEN Threw("User not in a team")
      ELSE
        LET status == IF Falsy(data.status) THEN ArticleStatus.DRAFT
                      ELSE data.status
            article ==
              [id |-> nextArticleId,
               title |-> data.title,
               slug |-> Slug[data.title],
               content |-> data.content,
               status |-> status,
               authorId |-> user,
               teamId |-> team,
               publishedAt |-> IF status = ArticleStatus.PUBLISHED
                               THEN now ELSE Null,
               updatedAt |-> now]
            tagRows ==
              IF data.tagIds # None /\ data.tagIds[1] # {}
              THEN {<<article.id, tagId>> : tagId \in data.tagIds[1]}
              ELSE {}
            categoryRows ==
              IF data.categoryIds # None /\ data.categoryIds[1] # {}
              THEN {<<article.id, categoryId>> :
                      categoryId \in data.categoryIds[1]}
              ELSE {}
        IN  [threw |-> FALSE, error |-> "", article |-> Some(article),
             articles |-> (article.id :> article) @@ articles,
             articleTags |-> articleTags \cup tagRows,
             articleCategories |-> articleCategories \cup categoryRows]

\* updateArticle that inserts the new join rows without deleting the old
updateArticle_KeepsOldLinks(session, team, articleId, data) ==
  IF ~canUserEditArticle(session, articleId)
  THEN Threw("Unauthorized to edit this article")
  ELSE
    LET row == [articles[articleId] EXCEPT !.updatedAt = now]
    IN  [threw |-> FALSE, error |-> "", article |-> Some(row),
         articles |-> [articles EXCEPT ![articleId] = row],
         articleTags |->
           IF data.tagIds # None
           THEN articleTags
                  \cup {<<articleId, tagId>> : tagId \in data.tagIds[1]}
           ELSE articleTags,
         articleCategories |->
           IF data.categoryIds # None
           THEN articleCategories
                  \cup {<<articleId, categoryId>> :
                          categoryId \in data.categoryIds[1]}
           ELSE articleCategories]

\* updateArticle that stores the title of the patch and leaves the slug
updateArticle_KeepsSlug(session, team, articleId, data) ==
  IF ~canUserEditArticle(session, articleId)
  THEN Threw("Unauthorized to edit this article")
  ELSE
    LET row == [articles[articleId] EXCEPT
                  !.updatedAt = now,
                  !.title = IF ~Falsy(data.title) THEN data.title ELSE @,
                  !.content = IF data.content # Undefined
                              THEN data.content ELSE @,
                  !.status = IF ~Falsy(data.status) THEN data.status ELSE @]
    IN  [threw |-> FALSE, error |-> "", article |-> Some(row),
         articles |-> [articles EXCEPT ![articleId] = row],
         articleTags |-> articleTags,
         articleCategories |-> articleCategories]

\* updateArticle that also sets the author to the user who updates
updateArticle_SetsAuthor(session, team, articleId, data) ==
  IF ~canUserEditArticle(session, articleId)
  THEN Threw("Unauthorized to edit this article")
  ELSE
    LET row == [articles[articleId] EXCEPT
                  !.updatedAt = now,
                  !.status = IF ~Falsy(data.status) THEN data.status ELSE @,
                  !.authorId = getUser(session)]
    IN  [threw |-> FALSE, error |-> "", article |-> Some(row),
         articles |-> [articles EXCEPT ![articleId] = row],
         articleTags |-> articleTags,
         articleCategories |-> articleCategories]

updateArticle(session, team, articleId, data) ==
  IF ~canUserEditArticle(session, articleId)
  THEN Threw("Unauthorized to edit this article")
  ELSE
    LET old == articles[articleId]
        found == getArticleById(session, team, articleId)
        setPublishedAt ==
          /\ ~Falsy(data.status)
          /\ data.status = ArticleStatus.PUBLISHED
          /\ found # None
          /\ found[1].publishedAt = Null
        row ==
          [old EXCEPT
             !.updatedAt = now,
             !.title = IF ~Falsy(data.title) THEN data.title ELSE @,
             !.slug = IF ~Falsy(data.title)
                      THEN Slug[data.title] ELSE @,
             !.content = IF data.content # Undefined THEN data.content ELSE @,
             !.status = IF ~Falsy(data.status) THEN data.status ELSE @,
             !.publishedAt = IF setPublishedAt THEN now ELSE @]
        tagRows ==
          IF data.tagIds # None
          THEN {r \in articleTags : r[1] # articleId}
                 \cup {<<articleId, tagId>> : tagId \in data.tagIds[1]}
          ELSE articleTags
        categoryRows ==
          IF data.categoryIds # None
          THEN {r \in articleCategories : r[1] # articleId}
                 \cup {<<articleId, categoryId>> :
                         categoryId \in data.categoryIds[1]}
          ELSE articleCategories
    IN  [threw |-> FALSE, error |-> "", article |-> Some(row),
         articles |-> [articles EXCEPT ![articleId] = row],
         articleTags |-> tagRows,
         articleCategories |-> categoryRows]

\* the join rows that remain after the article row is deleted
onDeleteCascade(rows, articleId) == {r \in rows : r[1] # articleId}

\* deleteArticle whose statement matches no article row
deleteArticle_NoRow(session, articleId) ==
  IF ~canUserEditArticle(session, articleId)
  THEN Threw("Unauthorized to delete this article")
  ELSE [threw |-> FALSE, error |-> "", article |-> None,
        articles |-> articles,
        articleTags |-> articleTags,
        articleCategories |-> articleCategories]

deleteArticle(session, articleId) ==
  IF ~canUserEditArticle(session, articleId)
  THEN Threw("Unauthorized to delete this article")
  ELSE [threw |-> FALSE, error |-> "", article |-> None,
        articles |-> [i \in DOMAIN articles \ {articleId} |-> articles[i]],
        articleTags |-> onDeleteCascade(articleTags, articleId),
        articleCategories |-> onDeleteCascade(articleCategories, articleId)]


\* ------------------------------------------------------------- requests

Title == "My First Post"
Content == "0123456789"

Body(title, content, status, teamId, tagIds, categoryIds) ==
  [title |-> title, content |-> content, status |-> status,
   teamId |-> teamId, tagIds |-> tagIds, categoryIds |-> categoryIds]

NoBody == Body(Undefined, Undefined, Undefined, Null, None, None)

\* bodies sent to POST /api/articles: one without a title, one for every
\* status, one for every teamId
PostBodies ==
  {Body(Undefined, Content, Undefined, 1, None, None)} \cup
  {Body(Title, Content, status, 1, None, None) :
     status \in {Undefined} \cup StatusEnum} \cup
  {Body(Title, Content, ArticleStatus.DRAFT, teamId, None, None) :
     teamId \in Teams}

\* bodies sent to PATCH /api/articles/[id] that carry at most a status
StatusBodies ==
  {Body(Undefined, Undefined, status, Null, None, None) :
     status \in {Undefined, "archived"} \cup StatusEnum}

\* bodies sent to PATCH /api/articles/[id] that carry a tag list, a
\* category list, both or neither
AssocBodies ==
  {Body(Undefined, Undefined, Undefined, Null, tagIds, None) :
     tagIds \in {None} \cup {Some(T) : T \in SUBSET TagIds}} \cup
  {Body(Undefined, Undefined, Undefined, Null, None, Some(C)) :
     C \in SUBSET CategoryIds} \cup
  {Body(Undefined, Undefined, Undefined, Null,
        Some(TagIds), Some(CategoryIds))}

\* texts that break the validation contract or carry markup
SecondTitle == "Second Post"
ShortTitle == "ab"
MarkupTitle == "<b>Hi!</b>"
EmptyMarkupTitle == "<b></b>"
ShortContent == "123456789"
MarkupContent == "<p>0123456789</p>"

\* bodies sent to POST /api/articles that vary the title, the content, the
\* status and the association lists
InputPostBodies ==
  {Body(title, Content, Undefined, 1, None, None) :
     title \in {Title, ShortTitle, MarkupTitle}} \cup
  {Body(Title, content, Undefined, 1, None, None) :
     content \in {ShortContent, MarkupContent}} \cup
  {Body(Title, Content, "archived", 1, None, None)} \cup
  {Body(Title, Content, Undefined, 1, tagIds, categoryIds) :
     tagIds \in {Some({}), Some(TagIds)},
     categoryIds \in {None, Some(CategoryIds)}}

\* bodies sent to PATCH /api/articles/[id] that carry a title, a content or
\* a status outside the enum
InputPatchBodies ==
  {Body(title, Undefined, Undefined, Null, None, None) :
     title \in {SecondTitle, ShortTitle, MarkupTitle, EmptyMarkupTitle}} \cup
  {Body(Undefined, content, Undefined, Null, None, None) :
     content \in {ShortContent, MarkupContent}} \cup
  {Body(Undefined, Undefined, "archived", Null, None, None)}

\* the titles given to generateSlug: every text of at most MaxSlugLen
\* characters over a small alphabet, and the title of the documentation
SlugAlphabet == {"a", "B", "7", "-", " ", "!"}

HelloWorld ==
  <<"H", "e", "l", "l", "o", ",", " ", "W", "o", "r", "l", "d", "!",
    " ", " ", "2", "0", "2", "4">>

SlugTitles ==
  UNION {[1..n -> SlugAlphabet] : n \in 0..MaxSlugLen} \cup {HelloWorld}

ArticleIds == 1..MaxArticles

Request(op, session, articleId, body) ==
  [op |-> op, session |-> session, articleId |-> articleId, body |-> body]

Response(status, error, article, list) ==
  [status |-> status, error |-> error, article |-> article, list |-> list]

NoRequest == Request("none", Null, Null, NoBody)
NoResponse == Response(0, "", None, None)

\* updateArticleSchema.parse: false when it throws a ZodError
updateArticleSchema(json) ==
  /\ json.title = Undefined \/ (Len(json.title) >= 3 /\ Len(json.title) <= 255)
  /\ json.content = Undefined \/ Len(json.content) >= 10
  /\ json.status \in {Undefined} \cup StatusEnum

\* the sanitizedData of PATCH: the parsed body with its texts sanitized
sanitizedData(data) ==
  Body(IF Falsy(data.title) THEN Undefined ELSE sanitizeInput(data.title),
       IF Falsy(data.content) THEN Undefined ELSE sanitizeInput(data.content),
       data.status, Null, data.tagIds, data.categoryIds)

\* a call of generateSlug: the title and, once it returned, the slug
SlugCall(title, slug) == [title |-> title, slug |-> slug]

\* an article row as createArticle stores it for a request without status
StoredArticle(id, authorId, teamId, updatedAt) ==
  [id |-> id, title |-> Title, slug |-> Slug[Title], content |-> Content,
   status |-> ArticleStatus.DRAFT, authorId |-> authorId, teamId |-> teamId,
   publishedAt |-> Null, updatedAt |-> updatedAt]

\* the articles tables of MaxListed articles, each written by a member
\* of its team and last updated at any time
ListedArticles ==
  {[id \in 1..MaxListed |->
      StoredArticle(id, row[id][1].userId, row[id][1].teamId, row[id][2])] :
     row \in [1..MaxListed -> SeedTeamMembers \X (1..MaxClock)]}

\* a call of the data layer: its arguments, the statement it is at, its
\* local variables and what it returned
Call(op, pc, args, local, result) ==
  [op |-> op, pc |-> pc, args |-> args, local |-> local, result |-> result]

CallIds == {1, 2}

NoCall == Call("none", "idle", <<>>, <<>>, None)
NoCalls == [c \in CallIds |-> NoCall]

\* the cookies that a request can carry
Cookies ==
  {Cookie(None)} \cup
  {Cookie(Some(Token(verified, user, expires))) :
     verified \in BOOLEAN,
     user \in {None} \cup {Some(id) : id \in Users \cup {3, 4}},
     expires \in 0..MaxClock}

Write(result) ==
  /\ articles' = result.articles
  /\ articleTags' = result.articleTags
  /\ articleCategories' = result.articleCategories

\* ------------------------------------------------------- route handlers

\* GET /api/articles
ArticlesGET(session) ==
  /\ request' = Request("GET list", session, Null, NoBody)
  /\ \E team \in getTeamForUser(session) :
       LET list == getArticlesForTeam(session, team)
       IN  response' = IF list = None
                       THEN Response(401, "Unauthorized", None, None)
                       ELSE Response(200, "", None, list)
  /\ UNCHANGED <<store, now, slugCall, calls>>

\* POST /api/articles
ArticlesPOST(session, body) ==
  /\ nextArticleId <= MaxArticles
  /\ now <= MaxClock
  /\ UNCHANGED <<slugCall, calls>>
  /\ request' = Request("POST", session, Null, body)
  /\ IF Falsy(body.title) \/ Falsy(body.content)
     THEN /\ response' =
               Response(400, "Title and content are required", None, None)
          /\ UNCHANGED <<store, now>>
     ELSE \E team \in getTeamForUser(session) :
            LET result ==
                  createArticle(session, team,
                    Body(body.title, body.content, body.status,
                         Null, None, None))
            IN  IF result.threw
                THEN /\ response' = Response(500, result.error, None, None)
                     /\ UNCHANGED <<store, now>>
                ELSE /\ response' = Response(201, "", result.article, None)
                     /\ Write(result)
                     /\ nextArticleId' = nextArticleId + 1
                     /\ now' = now + 1
                     /\ UNCHANGED teamMembers

\* PATCH /api/articles/[id]; the body is read (request.json()) only after
\* the session, the article and the membership were checked
ArticlePATCH(session, articleId, json) ==
  /\ now <= MaxClock
  /\ UNCHANGED <<slugCall, calls>>
  /\ IF auth(session) = Null
     THEN /\ request' = Request("PATCH", session, articleId, NoBody)
          /\ response' = Response(401, "Unauthorized", None, None)
          /\ UNCHANGED <<store, now>>
     ELSE IF getArticleByIdInternal(articleId) = None
     THEN /\ request' = Request("PATCH", session, articleId, NoBody)
          /\ response' = Response(404, "Article not found", None, None)
          /\ UNCHANGED <<store, now>>
     ELSE IF getTeamMembership(auth(session),
                               getArticleByIdInternal(articleId)[1].teamId) = {}
     THEN /\ request' = Request("PATCH", session, articleId, NoBody)
          /\ response' = Response(403, "Forbidden", None, None)
          /\ UNCHANGED <<store, now>>
     ELSE IF ~updateArticleSchema(json)
     THEN /\ request' = Request("PATCH", session, articleId, json)
          /\ response' = Response(400, "ZodError", None, None)
          /\ UNCHANGED <<store, now>>
     ELSE /\ request' = Request("PATCH", session, articleId, json)
          /\ \E team \in getTeamForUser(session) :
               LET result == updateArticle(session, team, articleId,
                                           sanitizedData(json))
               IN  IF result.threw
                   THEN /\ response' = Response(500, result.error, None, None)
                        /\ UNCHANGED <<store, now>>
                   ELSE /\ response' = Response(200, "", None, None)
                        /\ Write(result)
                        /\ now' = now + 1
                        /\ UNCHANGED <<teamMembers, nextArticleId>>

\* GET /api/articles/[id] that asks for the session before the status
ArticleGET_SessionFirst(session, articleId) ==
  /\ request' = Request("GET", session, articleId, NoBody)
  /\ LET article == getArticleByIdInternal(articleId)
     IN  response' =
           IF article = None
           THEN Response(404, "Article not found", None, None)
           ELSE IF auth(session) = Null
           THEN Response(401, "Unauthorized", None, None)
           ELSE IF article[1].status = ArticleStatus.PUBLISHED
           THEN Response(200, "", article, None)
           ELSE IF getTeamMembership(auth(session), article[1].teamId) = {}
           THEN Response(403, "Forbidden", None, None)
           ELSE Response(200, "", article, None)
  /\ UNCHANGED <<store, now, slugCall, calls>>

\* GET /api/articles/[id] without the membership lookup
ArticleGET_AnyUser(session, articleId) ==
  /\ request' = Request("GET", session, articleId, NoBody)
  /\ LET article == getArticleByIdInternal(articleId)
     IN  response' =
           IF article = None
           THEN Response(404, "Article not found", None, None)
           ELSE IF article[1].status = ArticleStatus.PUBLISHED
           THEN Response(200, "", article, None)
           ELSE IF auth(session) = Null
           THEN Response(401, "Unauthorized", None, None)
           ELSE Response(200, "", article, None)
  /\ UNCHANGED <<store, now, slugCall, calls>>

\* GET /api/articles/[id]
ArticleGET(session, articleId) ==
  /\ request' = Request("GET", session, articleId, NoBody)
  /\ LET article == getArticleByIdInternal(articleId)
     IN  response' =
           IF article = None
           THEN Response(404, "Article not found", None, None)
           ELSE IF article[1].status = ArticleStatus.PUBLISHED
           THEN Response(200, "", article, None)
           ELSE IF auth(session) = Null
           THEN Response(401, "Unauthorized", None, None)
           ELSE IF getTeamMembership(auth(session), article[1].teamId) = {}
           THEN Response(403, "Forbidden", None, None)
           ELSE Response(200, "", article, None)
  /\ UNCHANGED <<store, now, slugCall, calls>>

\* DELETE /api/articles/[id]
ArticleDELETE(session, articleId) ==
  /\ request' = Request("DELETE", session, articleId, NoBody)
  /\ UNCHANGED <<slugCall, calls>>
  /\ IF auth(session) = Null
     THEN /\ response' = Response(401, "Unauthorized", None, None)
          /\ UNCHANGED <<store, now>>
     ELSE IF getArticleByIdInternal(articleId) = None
     THEN /\ response' = Response(404, "Article not found", None, None)
          /\ UNCHANGED <<store, now>>
     ELSE IF getTeamMembership(auth(session),
                               getArticleByIdInternal(articleId)[1].teamId) = {}
     THEN /\ response' = Response(403, "Forbidden", None, None)
          /\ UNCHANGED <<store, now>>
     ELSE LET result == deleteArticle(session, articleId)
          IN  IF result.threw
              THEN /\ response' = Response(500, result.error, None, None)
                   /\ UNCHANGED <<store, now>>
              ELSE /\ response' = Response(200, "", None, None)
                   /\ Write(result)
                   /\ UNCHANGED <<teamMembers, nextArticleId, now>>

\* ---------------------------------------------------------- generateSlug

\* one call of generateSlug(title)
GenerateSlug ==
  /\ slugCall.slug = None
  /\ slugCall' = SlugCall(slugCall.title, Some(generateSlug(slugCall.title)))
  /\ UNCHANGED <<store, now, request, response, calls>>

\* --------------------------------------------------------------- getUser

\* one call of getUser() under the cookie of the request
GetUser(cookie) ==
  /\ calls' = [calls EXCEPT ![1] =
                 Call("getUser", "done", [cookie |-> cookie], <<>>,
                      Some(getUser(SessionUserId(cookie))))]
  /\ UNCHANGED <<store, now, request, response, slugCall>>

\* time passes
Tick ==
  /\ now <= MaxClock
  /\ now' = now + 1
  /\ UNCHANGED <<store, request, response, slugCall, calls>>

\* ------------------------------------------------- team membership rows

RemoveTeamMember(userId, teamId) ==
  /\ getTeamMembership(userId, teamId) # {}
  /\ teamMembers' = teamMembers \ getTeamMembership(userId, teamId)
  /\ request' = NoRequest
  /\ response' = NoResponse
  /\ UNCHANGED <<articles, nextArticleId, articleTags, articleCategories,
                 now, slugCall, calls>>

\* --------------------------------------------------------- specification

Init ==
  /\ teamMembers = SeedTeamMembers
  /\ articles = <<>>
  /\ nextArticleId = 1
  /\ articleTags = {}
  /\ articleCategories = {}
  /\ now = 1
  /\ request = NoRequest
  /\ response = NoResponse
  /\ slugCall = SlugCall(<<>>, None)
  /\ calls = NoCalls

Next ==
  \/ \E session \in Sessions : ArticlesGET(session)
  \/ \E session \in Sessions, body \in PostBodies : ArticlesPOST(session, body)
  \/ \E session \in Sessions, articleId \in ArticleIds, json \in StatusBodies :
       ArticlePATCH(session, articleId, json)
  \/ \E session \in Sessions, articleId \in ArticleIds :
       ArticleGET(session, articleId)
  \/ \E session \in Sessions, articleId \in ArticleIds :
       ArticleDELETE(session, articleId)
  \/ \E userId \in Users, teamId \in Teams : RemoveTeamMember(userId, teamId)

Spec == Init /\ [][Next]_vars

\* the same store under requests that replace the association lists
NextAssoc ==
  \/ \E session \in Sessions :
       ArticlesPOST(session, Body(Title, Content, Undefined, 1, None, None))
  \/ \E session \in Sessions, articleId \in ArticleIds, json \in AssocBodies :
       ArticlePATCH(session, articleId, json)
  \/ \E session \in Sessions, articleId \in ArticleIds :
       ArticleDELETE(session, articleId)

SpecAssoc == Init /\ [][NextAssoc]_vars

\* the same store under requests that vary the texts and the status
NextInput ==
  \/ \E session \in Sessions, body \in InputPostBodies :
       ArticlesPOST(session, body)
  \/ \E session \in Sessions, articleId \in ArticleIds,
        json \in InputPatchBodies :
       ArticlePATCH(session, articleId, json)

SpecInput == Init /\ [][NextInput]_vars

\* the list of the team's articles, asked for when articles exist
InitList ==
  /\ teamMembers = SeedTeamMembers
  /\ articles \in ListedArticles
  /\ nextArticleId = MaxListed + 1
  /\ articleTags = {}
  /\ articleCategories = {}
  /\ now = MaxClock + 1
  /\ request = NoRequest
  /\ response = NoResponse
  /\ slugCall = SlugCall(<<>>, None)
  /\ calls = NoCalls

NextList ==
  \/ \E session \in Sessions : ArticlesGET(session)
  \/ \E userId \in Users, teamId \in Teams : RemoveTeamMember(userId, teamId)

SpecList == InitList /\ [][NextList]_vars

\* getUser called under every cookie while time passes
NextUser ==
  \/ \E cookie \in Cookies : GetUser(cookie)
  \/ Tick

SpecUser == Init /\ [][NextUser]_vars

\* generateSlug called on one title
InitSlug ==
  /\ teamMembers = SeedTeamMembers
  /\ articles = <<>>
  /\ nextArticleId = 1
  /\ articleTags = {}
  /\ articleCategories = {}
  /\ now = 1
  /\ request = NoRequest
  /\ response = NoResponse
  /\ slugCall \in {SlugCall(title, None) : title \in SlugTitles}
  /\ calls = NoCalls

NextSlug == GenerateSlug

SpecSlug == InitSlug /\ [][NextSlug]_vars


\* ------------------------------------------- the data layer, by statement
\*
\* createArticle, updateArticle and deleteArticle are async functions: every
\* await of a statement against the store is a point where another call can
\* run.  A call in flight is calls[c]; each action below is one statement of
\* one call, together with the synchronous code that precedes the next
\* await.  The reads of canUserEditArticle and of getArticleById are taken
\* as one statement each: the rows of teamMembers do not change here and
\* authorId and teamId of an article never change.

\* the patches given to the calls of updateArticle
ConcPatches ==
  {Body(Undefined, Undefined, status, Null, None, None) :
     status \in {ArticleStatus.PUBLISHED, ArticleStatus.UNPUBLISHED}} \cup
  {Body(Undefined, Undefined, Undefined, Null, Some({tagId}), None) :
     tagId \in TagIds} \cup
  {Body(Undefined, Undefined, Undefined, Null, None, Some({categoryId})) :
     categoryId \in CategoryIds}

\* the data given to the calls of createArticle
ConcPosts ==
  {Body(Title, Content, Undefined, Null, None, None),
   Body(Title, Content, Undefined, Null, Some(TagIds), Some(CategoryIds))}

\* the arguments of a call and the session it runs under
Args(session, articleId, data) ==
  [session |-> session, articleId |-> articleId, data |-> data]

\* the local variables of a call: updateData.updatedAt and
\* updateData.publishedAt, the team of createArticle, and result[0]
Local(updatedAt, publishedAt, team, returning) ==
  [updatedAt |-> updatedAt, publishedAt |-> publishedAt, team |-> team,
   returning |-> returning]

\* what a call returned, or the Error it threw
Returned(article) == Some([threw |-> FALSE, error |-> "", article |-> article])
Thrown(message) == Some([threw |-> TRUE, error |-> message, article |-> None])

ForeignKeyViolation == "violates foreign key constraint"

Tables(a, t, c) ==
  [articles |-> a, articleTags |-> t, articleCategories |-> c]

\* the article referenced by a new join row must exist
ReferencesArticle(articleId) == articleId \in DOMAIN articles

\* db.insert(articles).values({...}) of createArticle, with the join rows
InsertArticle_WithLinks(user, team, data) ==
  LET status == IF Falsy(data.status) THEN ArticleStatus.DRAFT
                ELSE data.status
      article ==
        [id |-> nextArticleId, title |-> data.title,
         slug |-> Slug[data.title], content |-> data.content,
         status |-> status, authorId |-> user, teamId |-> team,
         publishedAt |-> IF status = ArticleStatus.PUBLISHED
                         THEN now ELSE Null,
         updatedAt |-> now]
  IN  Tables((article.id :> article) @@ articles,
             articleTags \cup
               (IF data.tagIds # None
                THEN {<<article.id, tagId>> : tagId \in data.tagIds[1]}
                ELSE {}),
             articleCategories)

\* db.insert(articles).values({...}) of createArticle
InsertArticle(user, team, data) ==
  LET status == IF Falsy(data.status) THEN ArticleStatus.DRAFT
                ELSE data.status
      article ==
        [id |-> nextArticleId, title |-> data.title,
         slug |-> Slug[data.title], content |-> data.content,
         status |-> status, authorId |-> user, teamId |-> team,
         publishedAt |-> IF status = ArticleStatus.PUBLISHED
                         THEN now ELSE Null,
         updatedAt |-> now]
  IN  Tables((article.id :> article) @@ articles, articleTags,
             articleCategories)

\* .set(updateData) that leaves the status of the row
SetUpdateData_KeepsStatus(row, data, local) ==
  [row EXCEPT
     !.updatedAt = local.updatedAt,
     !.publishedAt = IF local.publishedAt # None
                     THEN local.publishedAt[1] ELSE @]

\* the row after .set(updateData): the fields that the patch and the
\* earlier statements put into updateData replace those of the row
SetUpdateData(row, data, local) ==
  [row EXCEPT
     !.updatedAt = local.updatedAt,
     !.title = IF ~Falsy(data.title) THEN data.title ELSE @,
     !.slug = IF ~Falsy(data.title) THEN Slug[data.title] ELSE @,
     !.content = IF data.content # Undefined THEN data.content ELSE @,
     !.status = IF ~Falsy(data.status) THEN data.status ELSE @,
     !.publishedAt = IF local.publishedAt # None
                     THEN local.publishedAt[1] ELSE @]

\* db.update(articles).set(updateData).where(eq(articles.id, articleId))
UpdateArticleRow(articleId, data, local) ==
  IF articleId \in DOMAIN articles
  THEN Tables([articles EXCEPT
                 ![articleId] = SetUpdateData(articles[articleId], data, local)],
              articleTags, articleCategories)
  ELSE Tables(articles, articleTags, articleCategories)

\* the statement of updateArticle that follows the statement pc
NextStatement(pc, data) ==
  LET categories == IF data.categoryIds # None
                    THEN "deleteCategories" ELSE "return"
  IN  CASE pc = "update" ->
             IF data.tagIds # None THEN "deleteTags" ELSE categories
        [] pc = "deleteTags" ->
             IF data.tagIds[1] # {} THEN "insertTags" ELSE categories
        [] pc = "insertTags" -> categories
        [] pc = "deleteCategories" ->
             IF data.categoryIds[1] # {} THEN "insertCategories"
             ELSE "return"
        [] pc = "insertCategories" -> "return"

\* the statement of createArticle that follows the statement pc
NextCreateStatement(pc, data) ==
  LET categories ==
        IF data.categoryIds # None /\ data.categoryIds[1] # {}
        THEN "insertCategories" ELSE "return"
  IN  CASE pc = "insert" ->
             IF data.tagIds # None /\ data.tagIds[1] # {}
             THEN "insertTags" ELSE categories
        [] pc = "insertTags" -> categories
        [] pc = "insertCategories" -> "return"

At(c, op, pc) == calls[c].op = op /\ calls[c].pc = pc

\* the call after a statement: at the next one, or returned
Proceed(call, next) ==
  IF next = "return"
  THEN [call EXCEPT !.pc = "done", !.result = Returned(call.local.returning)]
  ELSE [call EXCEPT !.pc = next]

Throw(call, message) ==
  [call EXCEPT !.pc = "done", !.result = Thrown(message)]

\* a caller starts createArticle, updateArticle or deleteArticle
Invoke(c, op, session, articleId, data) ==
  /\ calls[c].op = "none"
  /\ \A d \in CallIds : d < c => calls[d].op # "none"
  /\ calls' = [calls EXCEPT ![c] =
                 Call(op, "start", Args(session, articleId, data),
                      Local(Null, None, Null, None), None)]
  /\ UNCHANGED <<store, now, request, response, slugCall>>

\* updateArticle: canUserEditArticle, the throw, updatedAt: new Date()
UpdateCheck(c) ==
  /\ At(c, "updateArticle", "start")
  /\ LET call == calls[c]
     IN  calls' = [calls EXCEPT ![c] =
           IF ~canUserEditArticle(call.args.session, call.args.articleId)
           THEN Throw(call, "Unauthorized to edit this article")
           ELSE [call EXCEPT
                   !.local.updatedAt = now,
                   !.pc = IF call.args.data.status = ArticleStatus.PUBLISHED
                          THEN "getArticleById" ELSE "update"]]
  /\ UNCHANGED <<store, now, request, response, slugCall>>

\* updateArticle: getArticleById and publishedAt: new Date()
UpdateGetArticleById(c) ==
  /\ At(c, "updateArticle", "getArticleById")
  /\ LET call == calls[c]
     IN  \E team \in getTeamForUser(call.args.session) :
           LET article == getArticleById(call.args.session, team,
                                         call.args.articleId)
           IN  calls' = [calls EXCEPT ![c] =
                 [call EXCEPT
                    !.pc = "update",
                    !.local.publishedAt =
                       IF article # None /\ article[1].publishedAt = Null
                       THEN Some(now) ELSE None]]
  /\ UNCHANGED <<store, now, request, response, slugCall>>

\* updateArticle: the update of the article row, returning it
UpdateRow(c) ==
  /\ At(c, "updateArticle", "update")
  /\ LET call == calls[c]
         id == call.args.articleId
         result == UpdateArticleRow(id, call.args.data, call.local)
         returning == IF id \in DOMAIN articles
                      THEN Some(result.articles[id]) ELSE None
     IN  /\ Write(result)
         /\ calls' = [calls EXCEPT ![c] =
              Proceed([call EXCEPT !.local.returning = returning],
                      NextStatement("update", call.args.data))]
  /\ UNCHANGED <<teamMembers, nextArticleId, now, request, response, slugCall>>

\* updateArticle: db.delete(articleTags) of the article
UpdateDeleteTags(c) ==
  /\ At(c, "updateArticle", "deleteTags")
  /\ articleTags' = {r \in articleTags : r[1] # calls[c].args.articleId}
  /\ calls' = [calls EXCEPT ![c] =
       Proceed(calls[c], NextStatement("deleteTags", calls[c].args.data))]
  /\ UNCHANGED <<teamMembers, articles, nextArticleId, articleCategories,
                 now, request, response, slugCall>>

\* the insert of the tag rows of updateArticle when nothing refuses the
\* rows of a missing article
UpdateInsertTags_Unchecked(c) ==
  /\ At(c, "updateArticle", "insertTags")
  /\ LET call == calls[c]
         id == call.args.articleId
     IN  /\ articleTags' = articleTags \cup
              {<<id, tagId>> : tagId \in call.args.data.tagIds[1]}
         /\ calls' = [calls EXCEPT ![c] =
              Proceed(call, NextStatement("insertTags", call.args.data))]
  /\ UNCHANGED <<teamMembers, articles, nextArticleId, articleCategories,
                 now, request, response, slugCall>>

\* updateArticle: db.insert(articleTags) of the list of the patch
UpdateInsertTags(c) ==
  /\ At(c, "updateArticle", "insertTags")
  /\ LET call == calls[c]
         id == call.args.articleId
     IN  IF ReferencesArticle(id)
         THEN /\ articleTags' = articleTags \cup
                   {<<id, tagId>> : tagId \in call.args.data.tagIds[1]}
              /\ calls' = [calls EXCEPT ![c] =
                   Proceed(call, NextStatement("insertTags", call.args.data))]
         ELSE /\ calls' = [calls EXCEPT ![c] =
                   Throw(call, ForeignKeyViolation)]
              /\ UNCHANGED articleTags
  /\ UNCHANGED <<teamMembers, articles, nextArticleId, articleCategories,
                 now, request, response, slugCall>>

\* updateArticle: db.delete(articleCategories) of the article
UpdateDeleteCategories(c) ==
  /\ At(c, "updateArticle", "deleteCategories")
  /\ articleCategories' =
       {r \in articleCategories : r[1] # calls[c].args.articleId}
  /\ calls' = [calls EXCEPT ![c] =
       Proceed(calls[c],
               NextStatement("deleteCategories", calls[c].args.data))]
  /\ UNCHANGED <<teamMembers, articles, nextArticleId, articleTags,
                 now, request, response, slugCall>>

\* updateArticle: db.insert(articleCategories) of the list of the patch
UpdateInsertCategories(c) ==
  /\ At(c, "updateArticle", "insertCategories")
  /\ LET call == calls[c]
         id == call.args.articleId
     IN  IF ReferencesArticle(id)
         THEN /\ articleCategories' = articleCategories \cup
                   {<<id, categoryId>> :
                      categoryId \in call.args.data.categoryIds[1]}
              /\ calls' = [calls EXCEPT ![c] =
                   Proceed(call,
                           NextStatement("insertCategories", call.args.data))]
         ELSE /\ calls' = [calls EXCEPT ![c] =
                   Throw(call, ForeignKeyViolation)]
              /\ UNCHANGED articleCategories
  /\ UNCHANGED <<teamMembers, articles, nextArticleId, articleTags,
                 now, request, response, slugCall>>

\* deleteArticle: canUserEditArticle and the throw
DeleteCheck(c) ==
  /\ At(c, "deleteArticle", "start")
  /\ LET call == calls[c]
     IN  calls' = [calls EXCEPT ![c] =
           IF ~canUserEditArticle(call.args.session, call.args.articleId)
           THEN Throw(call, "Unauthorized to delete this article")
           ELSE [call EXCEPT !.pc = "delete"]]
  /\ UNCHANGED <<store, now, request, response, slugCall>>

\* deleteArticle: db.delete(articles) of the row; its join rows go with it
DeleteRow(c) ==
  /\ At(c, "deleteArticle", "delete")
  /\ LET id == calls[c].args.articleId
     IN  /\ articles' = [i \in DOMAIN articles \ {id} |-> articles[i]]
         /\ articleTags' = onDeleteCascade(articleTags, id)
         /\ articleCategories' = onDeleteCascade(articleCategories, id)
  /\ calls' = [calls EXCEPT ![c] = Proceed(calls[c], "return")]
  /\ UNCHANGED <<teamMembers, nextArticleId, now, request, response, slugCall>>

\* createArticle: getUser, getTeamForUser and their throws
CreateCheck(c) ==
  /\ At(c, "createArticle", "start")
  /\ LET call == calls[c]
     IN  \E team \in getTeamForUser(call.args.session) :
           calls' = [calls EXCEPT ![c] =
             IF getUser(call.args.session) = Null
             THEN Throw(call, "User not authenticated")
             ELSE IF team = Null THEN Throw(call, "User not in a team")
             ELSE [call EXCEPT !.pc = "insert", !.local.team = team]]
  /\ UNCHANGED <<store, now, request, response, slugCall>>

\* createArticle: the insert of the article row, returning it
CreateInsertRow(c) ==
  /\ At(c, "createArticle", "insert")
  /\ nextArticleId <= MaxArticles
  /\ LET call == calls[c]
         result == InsertArticle(getUser(call.args.session), call.local.team,
                                 call.args.data)
     IN  /\ Write(result)
         /\ calls' = [calls EXCEPT ![c] =
              Proceed([call EXCEPT
                         !.local.returning =
                            Some(result.articles[nextArticleId])],
                      NextCreateStatement("insert", call.args.data))]
  /\ nextArticleId' = nextArticleId + 1
  /\ UNCHANGED <<teamMembers, now, request, response, slugCall>>

\* createArticle: db.insert(articleTags) of data.tagIds
CreateInsertTags(c) ==
  /\ At(c, "createArticle", "insertTags")
  /\ LET call == calls[c]
         id == call.local.returning[1].id
     IN  IF ReferencesArticle(id)
         THEN /\ articleTags' = articleTags \cup
                   {<<id, tagId>> : tagId \in call.args.data.tagIds[1]}
              /\ calls' = [calls EXCEPT ![c] =
                   Proceed(call,
                           NextCreateStatement("insertTags", call.args.data))]
         ELSE /\ calls' = [calls EXCEPT ![c] =
                   Throw(call, ForeignKeyViolation)]
              /\ UNCHANGED articleTags
  /\ UNCHANGED <<teamMembers, articles, nextArticleId, articleCategories,
                 now, request, response, slugCall>>

\* createArticle: db.insert(articleCategories) of data.categoryIds
CreateInsertCategories(c) ==
  /\ At(c, "createArticle", "insertCategories")
  /\ LET call == calls[c]
         id == call.local.returning[1].id
     IN  IF ReferencesArticle(id)
         THEN /\ articleCategories' = articleCategories \cup
                   {<<id, categoryId>> :
                      categoryId \in call.args.data.categoryIds[1]}
              /\ calls' = [calls EXCEPT ![c] =
                   Proceed(call, "return")]
         ELSE /\ calls' = [calls EXCEPT ![c] =
                   Throw(call, ForeignKeyViolation)]
              /\ UNCHANGED articleCategories
  /\ UNCHANGED <<teamMembers, articles, nextArticleId, articleTags,
                 now, request, response, slugCall>>

\* the process stops between two statements of a call: the call never
\* continues and nothing that it wrote is taken back
Stop(c) ==
  /\ calls[c].op \in {"createArticle", "updateArticle", "deleteArticle"}
  /\ calls[c].pc \in {"insert", "update", "delete", "getArticleById",
                      "deleteTags", "insertTags", "deleteCategories",
                      "insertCategories"}
  /\ calls' = [calls EXCEPT ![c].pc = "stopped before " \o calls[c].pc]
  /\ UNCHANGED <<store, now, request, response, slugCall>>

\* the article of the store when the calls start: written by user 2 for
\* team 1 and then given tag 1 and category 1 by an update
SeededArticle == StoredArticle(1, 2, 1, 2)

\* the calls start on the empty store or on the store of one article
InitConc ==
  /\ teamMembers = SeedTeamMembers
  /\ \/ /\ articles = <<>>
        /\ nextArticleId = 1
        /\ articleTags = {}
        /\ articleCategories = {}
        /\ now = 1
     \/ /\ articles = (1 :> SeededArticle)
        /\ nextArticleId = 2
        /\ articleTags = {<<1, 1>>}
        /\ articleCategories = {<<1, 1>>}
        /\ now = 3
  /\ request = NoRequest
  /\ response = NoResponse
  /\ slugCall = SlugCall(<<>>, None)
  /\ calls = NoCalls

NextConc ==
  \/ \E c \in CallIds, session \in Users, data \in ConcPosts :
       Invoke(c, "createArticle", session, Null, data)
  \/ \E c \in CallIds, session \in Users, articleId \in ArticleIds,
        data \in ConcPatches :
       Invoke(c, "updateArticle", session, articleId, data)
  \/ \E c \in CallIds, session \in Users, articleId \in ArticleIds :
       Invoke(c, "deleteArticle", session, articleId, NoBody)
  \/ \E c \in CallIds : UpdateCheck(c)
  \/ \E c \in CallIds : UpdateGetArticleById(c)
  \/ \E c \in CallIds : UpdateRow(c)
  \/ \E c \in CallIds : UpdateDeleteTags(c)
  \/ \E c \in CallIds : UpdateInsertTags(c)
  \/ \E c \in CallIds : UpdateDeleteCategories(c)
  \/ \E c \in CallIds : UpdateInsertCategories(c)
  \/ \E c \in CallIds : DeleteCheck(c)
  \/ \E c \in CallIds : DeleteRow(c)
  \/ \E c \in CallIds : CreateCheck(c)
  \/ \E c \in CallIds : CreateInsertRow(c)
  \/ \E c \in CallIds : CreateInsertTags(c)
  \/ \E c \in CallIds : CreateInsertCategories(c)
  \/ \E c \in CallIds : Stop(c)
  \/ Tick

SpecConc == InitConc /\ [][NextConc]_vars


\* ============================================================ properties

\* the user's membership rows in the article's team
MembershipIn(session, article) ==
  {m \in teamMembers : m.userId = session /\ m.teamId = article.teamId}

\* the write policy: a member of the article's team who owns the team or
\* wrote the article
WritePolicy(session, article) ==
  /\ session # Null
  /\ \E m \in MembershipIn(session, article) :
       m.role = "owner" \/ article.authorId = session

TagsOf(rows, articleId) == {r[2] : r \in {x \in rows : x[1] = articleId}}

\* C1: a PATCH or DELETE of an existing article changes the article rows or
\* the association rows only if the requester is a member of the article's
\* team and is its owner or the article's author; such a requester is served
\* (200) and the row changes, whoever wrote the article.
C1_WriteOnlyByOwnerOrAuthor ==
  [][\A id \in DOMAIN articles :
       (request'.op \in {"PATCH", "DELETE"} /\ request'.articleId = id) =>
         IF WritePolicy(request'.session, articles[id])
         THEN (request'.op = "PATCH" => updateArticleSchema(request'.body)) =>
                /\ response'.status = 200
                /\ articles' # articles
         ELSE /\ response'.status # 200
              /\ articles' = articles
              /\ articleTags' = articleTags
              /\ articleCategories' = articleCategories]_vars

\* a plain member was denied on an article another member wrote
C1_Witness ==
  /\ request.op \in {"PATCH", "DELETE"}
  /\ response.status # 200
  /\ request.articleId \in DOMAIN articles
  /\ articles[request.articleId].authorId # request.session
  /\ \E m \in MembershipIn(request.session, articles[request.articleId]) :
       m.role = "member"

\* C2: GET /api/articles/[id] of an existing published article answers 200
\* with the article for every requester, signed in or not, member or not.
C2_PublishedReadableByAnyone ==
  (/\ request.op = "GET"
   /\ request.articleId \in DOMAIN articles
   /\ articles[request.articleId].status = ArticleStatus.PUBLISHED)
  => /\ response.status = 200
     /\ response.article = Some(articles[request.articleId])

\* a published article was served to a request without session
C2_Witness ==
  /\ request.op = "GET"
  /\ request.session = Null
  /\ request.articleId \in DOMAIN articles
  /\ articles[request.articleId].status = ArticleStatus.PUBLISHED
  /\ response.status = 200

\* C3: GET /api/articles/[id] of an existing draft or unpublished article
\* answers 401 without the article when no user is resolved, 403 without the
\* article when the user has no membership in the article's team, and 200
\* with the article for a member of that team.
C3_DraftReadableByMembersOnly ==
  (/\ request.op = "GET"
   /\ request.articleId \in DOMAIN articles
   /\ articles[request.articleId].status
        \in {ArticleStatus.DRAFT, ArticleStatus.UNPUBLISHED})
  => LET article == articles[request.articleId]
     IN  IF request.session = Null
         THEN response.status = 401 /\ response.article = None
         ELSE IF MembershipIn(request.session, article) = {}
         THEN response.status = 403 /\ response.article = None
         ELSE response.status = 200 /\ response.article = Some(article)

\* a signed-in user outside the team was refused a draft with 403
C3_Witness ==
  /\ request.op = "GET"
  /\ request.session # Null
  /\ request.articleId \in DOMAIN articles
  /\ articles[request.articleId].status # ArticleStatus.PUBLISHED
  /\ MembershipIn(request.session, articles[request.articleId]) = {}
  /\ response.status = 403


\* C4: a signed-in user who is denied for lack of membership, role or
\* authorship gets 403: PATCH and DELETE by a member of the article's team
\* who is neither its owner nor the author, and GET /api/articles by a user
\* without any team.
C4_DeniedUserGets403 ==
  /\ (/\ request.op \in {"PATCH", "DELETE"}
      /\ request.session # Null
      /\ request.articleId \in DOMAIN articles
      /\ MembershipIn(request.session, articles[request.articleId]) # {}
      /\ ~WritePolicy(request.session, articles[request.articleId])
      /\ updateArticleSchema(request.body))
     => response.status = 403
  /\ (/\ request.op = "GET list"
      /\ request.session # Null
      /\ {m \in teamMembers : m.userId = request.session} = {})
     => response.status = 403

\* C5: every article that appears was created by a POST of its author, under
\* a team in which the author has a membership at that moment; a POST by a
\* caller without any membership creates nothing.
C5_CreatedUnderOwnTeam ==
  [][/\ \A id \in DOMAIN articles' \ DOMAIN articles :
          /\ request'.op = "POST"
          /\ articles'[id].authorId = request'.session
          /\ getTeamMembership(articles'[id].authorId,
                               articles'[id].teamId) # {}
     /\ (/\ request'.op = "POST"
         /\ {m \in teamMembers : m.userId = request'.session} = {})
        => articles' = articles]_vars

\* a user with two teams created an article while asking for a team
C5_Witness ==
  /\ request.op = "POST"
  /\ response.status = 201
  /\ Cardinality({m \in teamMembers : m.userId = request.session}) > 1
  /\ \E id \in DOMAIN articles : articles[id].authorId = request.session

\* C6: a create request whose teamId is not a team of the caller is rejected
\* and persists no article.
C6_ForeignTeamIdRejected ==
  (/\ request.op = "POST"
   /\ request.session # Null
   /\ getTeamMembership(request.session, request.body.teamId) = {})
  => /\ response.status \notin {200, 201}
     /\ response.article = None

\* C7: publishedAt is non-null exactly when the article has been published
\* at some point: an article whose status is published has it set, a newly
\* set publishedAt comes with the status published, and no step resets it.
C7_PublishedAtIffEverPublished ==
  [][\A id \in DOMAIN articles' :
       LET new == articles'[id]
       IN  /\ new.status = ArticleStatus.PUBLISHED => new.publishedAt # Null
           /\ (id \in DOMAIN articles /\ articles[id].publishedAt # Null)
                => new.publishedAt # Null
           /\ (/\ new.publishedAt # Null
               /\ id \in DOMAIN articles => articles[id].publishedAt = Null)
                => new.status = ArticleStatus.PUBLISHED]_vars

\* C8: publishedAt is set exactly once: a served update to published of an
\* article that has none sets it, and once set no update changes its value.
C8_PublishedAtSetOnce ==
  [][\A id \in DOMAIN articles \cap DOMAIN articles' :
       /\ articles[id].publishedAt # Null
            => articles'[id].publishedAt = articles[id].publishedAt
       /\ (/\ request'.op = "PATCH"
           /\ request'.articleId = id
           /\ response'.status = 200
           /\ request'.body.status = ArticleStatus.PUBLISHED
           /\ articles[id].publishedAt = Null)
            => articles'[id].publishedAt # Null]_vars

\* C9: a served update replaces the tag links of the article by the list in
\* the patch and leaves them alone when the patch has no list; the same,
\* independently, for the category links.
C9_AssociationsReplacedOrUntouched ==
  [][(request'.op = "PATCH" /\ response'.status = 200) =>
       LET id == request'.articleId
           data == request'.body
       IN  /\ TagsOf(articleTags', id) =
                IF data.tagIds = None THEN TagsOf(articleTags, id)
                ELSE data.tagIds[1]
           /\ TagsOf(articleCategories', id) =
                IF data.categoryIds = None THEN TagsOf(articleCategories, id)
                ELSE data.categoryIds[1]]_vars

\* an update with tagIds = [] and no categoryIds left the article without
\* tag links and with its category links
C9_Witness ==
  /\ request.op = "PATCH"
  /\ response.status = 200
  /\ request.body.tagIds = Some({})
  /\ request.body.categoryIds = None
  /\ TagsOf(articleTags, request.articleId) = {}
  /\ TagsOf(articleCategories, request.articleId) # {}

Created == response.article[1]

\* C11: every text that a mutating request persists has passed through
\* sanitizeInput: the title and the content stored by a served POST are the
\* sanitized title and content of its body, and no stored title or content
\* changes when it is sanitized again.
C11_PersistedTextSanitized ==
  /\ (request.op = "POST" /\ response.status = 201) =>
       /\ Created.title = sanitizeInput(request.body.title)
       /\ Created.content = sanitizeInput(request.body.content)
  /\ \A id \in DOMAIN articles :
       /\ sanitizeInput(articles[id].title) = articles[id].title
       /\ sanitizeInput(articles[id].content) = articles[id].content

\* the validation contract: title of 3 to 255 characters, content of at
\* least 10, status in the enum; title and content are required on create
ValidationContract(op, body) ==
  /\ IF body.title = Undefined THEN op = "PATCH"
     ELSE Len(body.title) >= 3 /\ Len(body.title) <= 255
  /\ IF body.content = Undefined THEN op = "PATCH"
     ELSE Len(body.content) >= 10
  /\ body.status \in {Undefined} \cup StatusEnum

\* C12: a POST or PATCH of a signed-in user whose body breaks the validation
\* contract is answered 400 and writes nothing.
C12_InvalidInputAnswered400 ==
  [][(/\ request'.op \in {"POST", "PATCH"}
      /\ request'.session # Null
      /\ ~ValidationContract(request'.op, request'.body))
     => /\ response'.status = 400
        /\ UNCHANGED store]_vars

\* C13: every persisted article has a status of the enum.
C13_StatusInEnum ==
  \A id \in DOMAIN articles : articles[id].status \in StatusEnum

\* C14: a POST, PATCH or DELETE without a session is answered 401 and writes
\* nothing, whether or not the article exists.
C14_NoSessionAnswered401 ==
  [][(request'.op \in {"POST", "PATCH", "DELETE"} /\ request'.session = Null)
     => /\ response'.status = 401
        /\ UNCHANGED store]_vars

\* the messages the handlers use when the exception carries none
GenericMessages ==
  {"Failed to fetch articles", "Failed to create article",
   "Failed to update article", "Failed to delete article"}

\* C15: a response with status 500 carries a generic message, never the
\* message of the exception that was thrown.
C15_GenericMessageOn500 ==
  response.status = 500 => response.error \in GenericMessages

\* C16: a served POST of user u returns the article it persisted, with
\* authorId u, a team of u as teamId, the slug of the title ("my-first-post"
\* for "My First Post"), the status of the body or draft when it has none,
\* and publishedAt set exactly when that status is published.
C16_CreateArticleFields ==
  (request.op = "POST" /\ response.status = 201) =>
    /\ Created.id \in DOMAIN articles
    /\ articles[Created.id] = Created
    /\ Created.authorId = request.session
    /\ Created.teamId \in getTeamForUser(request.session)
    /\ Created.slug = Join(generateSlug(Chars(request.body.title)))
    /\ request.body.title = Title => Created.slug = "my-first-post"
    /\ Created.status = IF request.body.status = Undefined
                        THEN ArticleStatus.DRAFT ELSE request.body.status
    /\ (Created.publishedAt # Null)
         <=> (Created.status = ArticleStatus.PUBLISHED)

\* an article was created as published, with its publishedAt and its slug
C16_Witness ==
  /\ request.op = "POST"
  /\ response.status = 201
  /\ request.body.status = ArticleStatus.PUBLISHED
  /\ Created.publishedAt # Null
  /\ Created.slug = "my-first-post"
  /\ articles[Created.id] = Created

\* C17: a served POST with tagIds T and categoryIds C leaves the new article
\* with exactly the tag links T and the category links C, and with none of a
\* kind whose list is empty or left out.
C17_CreateLinksAsSupplied ==
  (request.op = "POST" /\ response.status = 201) =>
    /\ TagsOf(articleTags, Created.id) =
         IF request.body.tagIds = None THEN {} ELSE request.body.tagIds[1]
    /\ TagsOf(articleCategories, Created.id) =
         IF request.body.categoryIds = None THEN {}
         ELSE request.body.categoryIds[1]

\* the characters of [a-z0-9] in a text, in their order
Alphanumerics(chars) == SelectSeq(chars, LAMBDA c : c \in SlugChars)

\* C18: the slug of a title has only characters of [a-z0-9-], no two
\* adjacent hyphens and no hyphen at either end; its letters and digits are
\* those of the lowercased title in the same order; "Hello, World!  2024"
\* gives "hello-world-2024".
C18_SlugShape ==
  slugCall.slug # None =>
    LET title == slugCall.title
        slug == slugCall.slug[1]
    IN  /\ \A i \in DOMAIN slug : slug[i] \in SlugChars \cup {"-"}
        /\ \A i \in 1..(Len(slug) - 1) : ~(slug[i] = "-" /\ slug[i + 1] = "-")
        /\ slug # <<>> => (slug[1] # "-" /\ slug[Len(slug)] # "-")
        /\ Alphanumerics(slug) =
             Alphanumerics([i \in DOMAIN title |-> toLowerCase(title[i])])
        /\ title = HelloWorld => Join(slug) = "hello-world-2024"

\* generateSlug returned for the title of the documentation
C18_Witness ==
  /\ slugCall.title = HelloWorld
  /\ slugCall.slug # None
  /\ Join(slugCall.slug[1]) = "hello-world-2024"

\* the read policy: a published article for anyone, any other article for a
\* member of its team
ReadPolicy(session, article) ==
  \/ article.status = ArticleStatus.PUBLISHED
  \/ session # Null /\ MembershipIn(session, article) # {}

\* C19: getArticleById returns the article exactly when the article exists
\* and the read policy allows the caller, and null otherwise.
C19_GetArticleByIdReadPolicy ==
  \A session \in Sessions, articleId \in ArticleIds :
    \A team \in getTeamForUser(session) :
      getArticleById(session, team, articleId) =
        IF /\ articleId \in DOMAIN articles
           /\ ReadPolicy(session, articles[articleId])
        THEN Some(articles[articleId])
        ELSE None

\* C20: no step changes the teamId or the authorId of an article that exists
\* before and after it.
C20_TeamAndAuthorImmutable ==
  [][\A id \in DOMAIN articles \cap DOMAIN articles' :
       /\ articles'[id].teamId = articles[id].teamId
       /\ articles'[id].authorId = articles[id].authorId]_vars

\* the owner of the team updated an article that another member wrote
C20_Witness ==
  /\ request.op = "PATCH"
  /\ response.status = 200
  /\ request.articleId \in DOMAIN articles
  /\ articles[request.articleId].authorId # request.session
  /\ articles[request.articleId].updatedAt > 1

ArticlesOf(team) ==
  {articles[id] : id \in {i \in DOMAIN articles : articles[i].teamId = team}}

\* C22: GET /api/articles answers with null (401) when no user or no team is
\* resolved; otherwise its list holds exactly the articles of one team of
\* the caller, each once and none of another team, and is ordered by
\* updatedAt descending.
C22_ListOfResolvedTeam ==
  request.op = "GET list" =>
    LET rows == {m \in teamMembers : m.userId = request.session}
    IN  IF request.session = Null \/ rows = {}
        THEN response.status = 401 /\ response.list = None
        ELSE /\ response.status = 200
             /\ response.list # None
             /\ LET list == response.list[1]
                IN  /\ \E m \in rows :
                         /\ {list[i] : i \in DOMAIN list} = ArticlesOf(m.teamId)
                         /\ Len(list) = Cardinality(ArticlesOf(m.teamId))
                    /\ \A i \in 1..(Len(list) - 1) :
                         list[i].updatedAt >= list[i + 1].updatedAt

\* a list of two articles whose order is not the order of their ids, while
\* an article of another team exists
C22_Witness ==
  /\ request.op = "GET list"
  /\ response.status = 200
  /\ Len(response.list[1]) = 2
  /\ response.list[1][1].id > response.list[1][2].id
  /\ response.list[1][1].updatedAt > response.list[1][2].updatedAt
  /\ \E id \in DOMAIN articles :
       articles[id].teamId # response.list[1][1].teamId

\* C23 (amended): a served update whose patch has a non-empty title stores
\* that title and the slug generateSlug(title) ("second-post" for "Second
\* Post"); a served update whose patch has no title, or an empty one, leaves
\* the stored title and slug unchanged whatever else the patch carries.
C23_SlugFollowsNonEmptyTitle ==
  [][(request'.op = "PATCH" /\ response'.status = 200) =>
       LET id == request'.articleId
           title == sanitizedData(request'.body).title
       IN  IF title \notin {Undefined, ""}
           THEN /\ articles'[id].title = title
                /\ articles'[id].slug = Slug[title]
                /\ title = SecondTitle => articles'[id].slug = "second-post"
           ELSE /\ articles'[id].title = articles[id].title
                /\ articles'[id].slug = articles[id].slug]_vars

\* an update with a title replaced the slug of the article
C23_Witness ==
  /\ request.op = "PATCH"
  /\ response.status = 200
  /\ request.body.title = SecondTitle
  /\ articles[request.articleId].title = SecondTitle
  /\ articles[request.articleId].slug = "second-post"

\* C23 as stated: a served update whose patch has a title stores the slug
\* generateSlug(title), and one whose patch has no title leaves title and
\* slug unchanged.
C23_SlugFollowsTitle ==
  [][(request'.op = "PATCH" /\ response'.status = 200) =>
       LET id == request'.articleId
           title == sanitizedData(request'.body).title
       IN  IF title # Undefined
           THEN articles'[id].slug = Slug[title]
           ELSE /\ articles'[id].title = articles[id].title
                /\ articles'[id].slug = articles[id].slug]_vars

\* this step is the row update of the call c of updateArticle
RowWrite(c) ==
  /\ calls[c].op = "updateArticle"
  /\ calls[c].pc = "update"
  /\ calls'[c].pc \notin {"update", "stopped before update"}

\* C24: concurrent calls of updateArticle are neither rejected nor blocked
\* because of each other: a call throws only at its check, for a caller
\* outside the write policy, or once the article is gone; and the row
\* update of a call stores the value of every field of its patch whatever the
\* other call stored, no other statement changing the row, so that the
\* stored value of a field is that of the last row update.
C24_LastRowWriteWins ==
  [][/\ \A c \in CallIds :
          (calls[c].op = "updateArticle" /\ calls'[c].pc # calls[c].pc) =>
            LET id == calls[c].args.articleId
                data == calls[c].args.data
            IN  /\ (calls'[c].result # None /\ calls'[c].result[1].threw) =>
                     \/ id \notin DOMAIN articles
                     \/ /\ calls[c].pc = "start"
                        /\ ~WritePolicy(calls[c].args.session, articles[id])
                /\ (RowWrite(c) /\ id \in DOMAIN articles) =>
                     /\ ~Falsy(data.status) =>
                          articles'[id].status = data.status
                     /\ ~Falsy(data.title) => articles'[id].title = data.title
                     /\ data.content # Undefined =>
                          articles'[id].content = data.content
                     /\ calls'[c].local.returning = Some(articles'[id])
     /\ \A id \in DOMAIN articles \cap DOMAIN articles' :
          articles'[id] # articles[id] =>
            \E c \in CallIds : RowWrite(c) /\ calls[c].args.articleId = id]_vars

\* users 1 and 2 both updated the status of article 1 and both returned;
\* call 1 passed its check before call 2 and updated the row after it
C24_Witness ==
  /\ \A c \in CallIds :
       /\ calls[c].op = "updateArticle"
       /\ calls[c].pc = "done"
       /\ ~calls[c].result[1].threw
       /\ calls[c].args.articleId = 1
  /\ calls[1].args.session # calls[2].args.session
  /\ calls[1].args.data.status = ArticleStatus.PUBLISHED
  /\ calls[2].args.data.status = ArticleStatus.UNPUBLISHED
  /\ calls[1].local.updatedAt < calls[2].local.updatedAt
  /\ 1 \in DOMAIN articles
  /\ calls[1].local.returning = Some(articles[1])
  /\ articles[1].status = ArticleStatus.PUBLISHED

\* C25: no statement of createArticle or updateArticle writes both the
\* article row and join rows, and a call that stops or throws takes nothing
\* back of what it wrote.
C25_RowAndLinksAreSeparateSteps ==
  [][\A c \in CallIds :
       (/\ calls[c].op \in {"createArticle", "updateArticle"}
        /\ calls'[c].pc # calls[c].pc) =>
         /\ ~(/\ articles' # articles
              /\ \/ articleTags' # articleTags
                 \/ articleCategories' # articleCategories)
         /\ (\/ calls'[c].pc = "stopped before " \o calls[c].pc
             \/ calls'[c].result # None /\ calls'[c].result[1].threw) =>
              UNCHANGED store]_vars

\* a createArticle stopped after it inserted the row and the tags, before
\* the categories of its data; an updateArticle of the same article stopped
\* after it updated the row and deleted these tags, before it inserted the
\* tags of its patch
C25_Witness ==
  \E c \in CallIds, d \in CallIds :
    /\ calls[c].op = "createArticle"
    /\ calls[c].pc = "stopped before insertCategories"
    /\ calls[c].args.data.categoryIds[1] # {}
    /\ calls[d].op = "updateArticle"
    /\ calls[d].pc = "stopped before insertTags"
    /\ calls[d].args.data.tagIds[1] # {}
    /\ LET id == calls[c].local.returning[1].id
       IN  /\ id \in DOMAIN articles
           /\ calls[d].args.articleId = id
           /\ calls[d].local.returning = Some(articles[id])
           /\ TagsOf(articleCategories, id) = {}
           /\ TagsOf(articleTags, id) = {}

\* C26: the row update of an updateArticle with status published never
\* replaces a publishedAt that the row already has.
C26_PublishedAtWrittenOnce ==
  [][\A c \in CallIds :
       (/\ RowWrite(c)
        /\ calls[c].args.data.status = ArticleStatus.PUBLISHED
        /\ calls[c].args.articleId \in DOMAIN articles) =>
         LET id == calls[c].args.articleId
         IN  articles[id].publishedAt # Null =>
               articles'[id].publishedAt = articles[id].publishedAt]_vars

C28_FinalLinksAreOneList ==
  \A id \in DOMAIN articles :
    (\A c \in CallIds :
       /\ calls[c].op = "updateArticle"
       /\ calls[c].pc = "done"
       /\ ~calls[c].result[1].threw
       /\ calls[c].args.articleId = id) =>
      /\ (\A c \in CallIds : calls[c].args.data.tagIds # None) =>
           TagsOf(articleTags, id) \in
             {calls[c].args.data.tagIds[1] : c \in CallIds}
      /\ (\A c \in CallIds : calls[c].args.data.categoryIds # None) =>
           TagsOf(articleCategories, id) \in
             {calls[c].args.data.categoryIds[1] : c \in CallIds}

\* the user of the session has membership rows in more than one team
MultiTeam(session) ==
  \E m1 \in teamMembers, m2 \in teamMembers :
    /\ m1.userId = session
    /\ m2.userId = session
    /\ m1.teamId # m2.teamId

\* C29: a served update to published, asked by a user with memberships in
\* more than one team, of an article without publishedAt sets publishedAt,
\* whichever team getTeamForUser resolves.
C29_MultiTeamPublishSetsPublishedAt ==
  [][(/\ request'.op = "PATCH"
      /\ response'.status = 200
      /\ request'.body.status = ArticleStatus.PUBLISHED
      /\ MultiTeam(request'.session)
      /\ articles[request'.articleId].publishedAt = Null)
       => articles'[request'.articleId].publishedAt # Null]_vars

\* a row of the tags or of the categories table: createTag and
\* createCategory store the team of the user who creates it
Tag(id, teamId) == [id |-> id, teamId |-> teamId]

\* the tags and the categories that the teams created, in turn
SeedTags == {Tag(id, IF id % 2 = 1 THEN 1 ELSE 2) : id \in TagIds}
SeedCategories == {Tag(id, IF id % 2 = 1 THEN 1 ELSE 2) : id \in CategoryIds}

\* C30: every join row links an article to a tag, or to a category, of the
\* team of the article.
C30_LinksWithinOneTeam ==
  /\ \A r \in articleTags :
       r[1] \in DOMAIN articles =>
         \A tag \in SeedTags :
           tag.id = r[2] => tag.teamId = articles[r[1]].teamId
  /\ \A r \in articleCategories :
       r[1] \in DOMAIN articles =>
         \A category \in SeedCategories :
           category.id = r[2] => category.teamId = articles[r[1]].teamId

====
